---- MODULE Spec2Model ----
(***************************************************************************)
(* Model of VQEUVCCFactory (vqe_uvcc_factory.py) and of the component      *)
(* comparison of TestElectronicStructureProblem.                           *)
(*                                                                         *)
(* Python objects live in heaps (sequences indexed by object identity);    *)
(* a reference is the index.  Optional values are sequences of length 0    *)
(* (None) or 1.                                                            *)
(*                                                                         *)
(*   Spec       one caller: constructor (Init), setters, direct writes to  *)
(*              minimum_eigensolver.ansatz, get_solver as one step         *)
(*   SpecConc   two callers in get_solver, one field access per step       *)
(*   SpecCheck  the component comparison of the regression test            *)
(***************************************************************************)
EXTENDS Integers, Sequences, FiniteSets, TLC

VARIABLES
    f_initial_state,  \* self._initial_state : optional circuit
    f_initial_point,  \* self._initial_point : None | array | InitialPoint
    f_ansatz,         \* self._ansatz        : optional reference into ansatzHeap
    f_vqe,            \* self._vqe           : reference into solverHeap
    ansatzHeap,       \* the UVCC / UVCCSD objects
    ipHeap,           \* the InitialPoint strategy objects
    solverHeap,       \* the VQE objects
    nCalls,           \* history: number of get_solver calls made
    last,             \* history: the latest get_solver call, until a setter runs
    directSet,        \* history: minimum_eigensolver.ansatz written since the latest call
    handles,          \* history: every solver reference get_solver has returned
    pc, loc,          \* SpecConc: position and locals of each caller
    expected, computed, checkResult   \* SpecCheck

factoryVars == <<f_initial_state, f_initial_point, f_ansatz, f_vqe>>
heapVars    == <<ansatzHeap, ipHeap, solverHeap>>
histVars    == <<nCalls, last, directSet, handles>>
concVars    == <<pc, loc>>
checkVars   == <<expected, computed, checkResult>>
vars == <<factoryVars, heapVars, histVars, concVars, checkVars>>

(***************************************************************************)
(* Bounds                                                                  *)
(***************************************************************************)
MaxCalls == 2     \* get_solver calls in a behaviour of Spec
MaxTerms == 2     \* terms in an operator's term list

(***************************************************************************)
(* Values                                                                  *)
(***************************************************************************)
None == <<>>
Some(x) == <<x>>
Get(o) == o[1]

Max(a, b) == IF a >= b THEN a ELSE b

\* heap[i] := v, allocating slot i when it is the next free one
HeapPut(heap, i, v) ==
    [k \in 1..Max(Len(heap), i) |-> IF k = i THEN v ELSE heap[k]]

Converters == {"qc1", "qc2"}

\* problem.basis.num_modals_per_mode is an int or a list of ints
SeqProblem(layout) == [is_int |-> FALSE, int |-> 0, seq |-> layout, num_modes |-> Len(layout)]
IntProblem(n, modes) == [is_int |-> TRUE, int |-> n, seq |-> <<>>, num_modes |-> modes]
ScalarProblem == IntProblem(4, 3)
Problems == {SeqProblem(<<2, 2>>), SeqProblem(<<3, 2>>), ScalarProblem}

\* circuits are immutable here and modelled by their content
VSCF(num_modals) == [kind |-> "VSCF", num_modals |-> num_modals]
UserCircuit == [kind |-> "custom", num_modals |-> <<>>]

\* UVCC() / UVCCSD() without arguments
BlankAnsatz(kind) ==
    [kind |-> kind, qubit_converter |-> None, num_modals |-> None, initial_state |-> None]
\* a user's ansatz that was configured for some earlier problem
StaleAnsatz ==
    [kind |-> "UVCC", qubit_converter |-> Some("qc2"), num_modals |-> Some(<<3, 3>>),
     initial_state |-> Some(UserCircuit)]
UserAnsatzes == <<StaleAnsatz>>

\* self._initial_point
IpNone == [tag |-> "None", arr |-> <<>>, ref |-> 0]
IpArray(a) == [tag |-> "array", arr |-> a, ref |-> 0]
IpStrategy(r) == [tag |-> "strategy", arr |-> <<>>, ref |-> r]
UserArray == <<5, 7>>
\* ipHeap[1] is a user's own InitialPoint object
UserStrategy == IpStrategy(1)

RECURSIVE SumSingles(_)
SumSingles(layout) ==
    IF layout = <<>> THEN 0 ELSE (Head(layout) - 1) + SumSingles(Tail(layout))

RECURSIVE SumDoubles(_)
SumDoubles(layout) ==
    IF layout = <<>> THEN 0
    ELSE (Head(layout) - 1) * SumSingles(Tail(layout)) + SumDoubles(Tail(layout))

\* number of parameters of a configured ansatz
NumParams(ansatz) ==
    IF ansatz.num_modals = None THEN 0
    ELSE IF ansatz.kind = "UVCCSD"
         THEN SumSingles(Get(ansatz.num_modals)) + SumDoubles(Get(ansatz.num_modals))
         ELSE SumSingles(Get(ansatz.num_modals))

\* InitialPoint.to_numpy_array(): computed from the ansatz the strategy is bound to
ToNumpyArray(strategy, heap) ==
    LET n == NumParams(heap[Get(strategy.ansatz)])
    IN  IF strategy.kind = "VSCF" THEN [i \in 1..n |-> 0] ELSE [i \in 1..n |-> i]

\* Reference counting: an ansatz object that neither the user, a solver, a
\* strategy nor a running call refers to is freed; its identity is not reused.
Freed == [kind |-> "freed", qubit_converter |-> None, num_modals |-> None,
          initial_state |-> None]
Referenced(solvers, strategies, held) ==
    (1..Len(UserAnsatzes)) \cup held
      \cup {Get(solvers[i].ansatz) : i \in {j \in DOMAIN solvers : solvers[j].ansatz # None}}
      \cup {Get(strategies[i].ansatz) :
               i \in {j \in DOMAIN strategies : strategies[j].ansatz # None}}
Collect(heap, solvers, strategies, held) ==
    [r \in DOMAIN heap |->
        IF r \in Referenced(solvers, strategies, held) THEN heap[r] ELSE Freed]

(***************************************************************************)
(* VQEUVCCFactory                                                          *)
(***************************************************************************)
NoCall ==
    [problem |-> ScalarProblem, qubit_converter |-> "qc1", result |-> "none", handle |-> 0,
     custom |-> None, plain |-> FALSE, direct |-> FALSE, repeat |-> FALSE,
     before |-> BlankAnsatz("UVCCSD"), content |-> BlankAnsatz("UVCCSD"), point |-> None]

\* __init__(initial_point, ansatz, initial_state, **kwargs)
Constructed(initial_point, ansatz, initial_state) ==
    /\ f_initial_state = initial_state
    /\ IF initial_point.tag # "None"
       THEN /\ f_initial_point = initial_point
            /\ ipHeap = <<[kind |-> "custom", ansatz |-> None]>>
       ELSE /\ f_initial_point = IpStrategy(2)
            /\ ipHeap = <<[kind |-> "custom", ansatz |-> None],
                          [kind |-> "VSCF", ansatz |-> None]>>
    /\ f_ansatz = ansatz
    /\ f_vqe = 1
    /\ solverHeap = <<[ansatz |-> None, initial_point |-> None]>>
    /\ ansatzHeap = UserAnsatzes

InitHist ==
    /\ nCalls = 0
    /\ last = NoCall
    /\ directSet = FALSE
    /\ handles = {}

Callers == {1, 2}
NoLocals ==
    [problem |-> ScalarProblem, qubit_converter |-> "qc1", num_modals |-> <<>>,
     initial_state |-> UserCircuit, ansatz |-> 0, initial_point |-> None,
     result |-> "none", handle |-> 0, afterOther |-> FALSE]

InitConcIdle ==
    /\ pc = [c \in Callers |-> "idle"]
    /\ loc = [c \in Callers |-> NoLocals]

InitCheckIdle ==
    /\ expected = <<>>
    /\ computed = <<>>
    /\ checkResult = "none"

CtorInitialPoints == {IpNone, IpArray(UserArray), UserStrategy}
CtorAnsatzes == {None} \cup {Some(r) : r \in 1..Len(UserAnsatzes)}
CtorInitialStates == {None, Some(UserCircuit)}

Init ==
    /\ \E ip \in CtorInitialPoints, a \in CtorAnsatzes, s \in CtorInitialStates :
          Constructed(ip, a, s)
    /\ InitHist
    /\ InitConcIdle
    /\ InitCheckIdle

\* ansatz.setter
SetAnsatz(ansatz) ==
    /\ f_ansatz' = ansatz
    /\ last' = NoCall
    /\ UNCHANGED <<f_initial_state, f_initial_point, f_vqe, heapVars, nCalls, directSet, handles,
                   concVars, checkVars>>

\* initial_state.setter
SetInitialState(initial_state) ==
    /\ f_initial_state' = initial_state
    /\ last' = NoCall
    /\ UNCHANGED <<f_ansatz, f_initial_point, f_vqe, heapVars, nCalls, directSet, handles,
                   concVars, checkVars>>

\* initial_point.setter
SetInitialPoint(initial_point) ==
    /\ f_initial_point' = initial_point
    /\ last' = NoCall
    /\ UNCHANGED <<f_ansatz, f_initial_state, f_vqe, heapVars, nCalls, directSet, handles,
                   concVars, checkVars>>

\* the minimum_eigensolver property
minimum_eigensolver == f_vqe

\* factory.minimum_eigensolver.ansatz = <an ansatz object>   (class docstring)
DirectSetSolverAnsatz(ref) ==
    /\ solverHeap' = [solverHeap EXCEPT ![minimum_eigensolver].ansatz = Some(ref)]
    /\ ansatzHeap' = Collect(ansatzHeap, solverHeap', ipHeap, {})
    /\ directSet' = TRUE
    /\ UNCHANGED <<factoryVars, ipHeap, nCalls, last, handles, concVars, checkVars>>

\* lines 153-155: len(basis.num_modals_per_mode); len() of an int raises TypeError
PyLen(problem) ==
    IF problem.is_int THEN [raised |-> TRUE, value |-> 0]
    ELSE [raised |-> FALSE, value |-> Len(problem.seq)]

\* lines 157-158: a scalar count becomes [num_modals] * num_modes
NormalizeNumModals(problem, num_modes) ==
    IF problem.is_int THEN [i \in 1..num_modes |-> problem.int] ELSE problem.seq

\* lines 160-162
SelectInitialState(num_modals) ==
    IF f_initial_state = None THEN VSCF(num_modals) ELSE Get(f_initial_state)

\* mutant: the custom ansatz is never used itself, a new object is configured
SelectAnsatzAlwaysNew(heap) == Len(heap) + 1

\* mutant: without a custom ansatz, the ansatz the solver already holds is reused
SelectAnsatzReuseSolver(heap) ==
    IF f_ansatz # None THEN Get(f_ansatz)
    ELSE IF solverHeap[f_vqe].ansatz # None THEN Get(solverHeap[f_vqe].ansatz)
    ELSE Len(heap) + 1

\* lines 164-166: the ansatz to configure; UVCCSD() is a new object
SelectAnsatz(heap) ==
    IF f_ansatz = None THEN Len(heap) + 1 ELSE Get(f_ansatz)

\* line 166: the heap once the ansatz to configure exists
WithAnsatz(heap, ref) ==
    IF ref = Len(heap) + 1 THEN Append(heap, BlankAnsatz("UVCCSD")) ELSE heap

\* mutant: only the fields the ansatz has not set yet are written
ConfigureUnsetOnly(ansatz, qubit_converter, num_modals, initial_state) ==
    [ansatz EXCEPT
        !.qubit_converter = IF @ = None THEN Some(qubit_converter) ELSE @,
        !.num_modals = IF @ = None THEN Some(num_modals) ELSE @,
        !.initial_state = IF @ = None THEN Some(initial_state) ELSE @]

\* lines 167-169
Configure(ansatz, qubit_converter, num_modals, initial_state) ==
    [ansatz EXCEPT !.qubit_converter = Some(qubit_converter),
                   !.num_modals = Some(num_modals),
                   !.initial_state = Some(initial_state)]

\* line 172
BindStrategy(strategies, s, ref) == [strategies EXCEPT ![s].ansatz = Some(ref)]

\* lines 172-173
BindAndEvaluate(s, ref, heap) ==
    LET bound == BindStrategy(ipHeap, s, ref)
    IN  [strategies |-> bound, point |-> Some(ToNumpyArray(bound[s], heap))]

\* mutant: a None initial point is replaced by the all-zero VSCF point
ResolveInitialPointDefaulting(ref, heap) ==
    IF f_initial_point.tag = "strategy"
    THEN BindAndEvaluate(f_initial_point.ref, ref, heap)
    ELSE [strategies |-> ipHeap,
          point |-> IF f_initial_point.tag = "None"
                    THEN Some([i \in 1..NumParams(heap[ref]) |-> 0])
                    ELSE Some(f_initial_point.arr)]

\* lines 171-175: the strategies after the call and the resolved initial point
ResolveInitialPoint(ref, heap) ==
    IF f_initial_point.tag = "strategy"
    THEN BindAndEvaluate(f_initial_point.ref, ref, heap)
    ELSE [strategies |-> ipHeap,
          point |-> IF f_initial_point.tag = "None" THEN None
                    ELSE Some(f_initial_point.arr)]

\* mutant: an ansatz the solver already holds is left in place
InstalledAnsatzKeepExisting(solver, ref) ==
    IF solverHeap[solver].ansatz # None THEN solverHeap[solver].ansatz ELSE Some(ref)

\* line 178: the value written to minimum_eigensolver.ansatz
InstalledAnsatz(solver, ref) == Some(ref)

\* mutant: every call constructs a new VQE
NewSolverPerCall == Len(solverHeap) + 1

\* lines 177-179: the solver that is configured and returned
SolverToConfigure == minimum_eigensolver

\* mutant: the ansatz that was configured is stored as the factory's ansatz
FactoryAfterGetSolverCaching(ref) ==
    [ansatz |-> Some(ref), initial_state |-> f_initial_state,
     initial_point |-> f_initial_point]

\* get_solver writes none of self._ansatz, self._initial_state, self._initial_point
FactoryAfterGetSolver(ref) ==
    [ansatz |-> f_ansatz, initial_state |-> f_initial_state, initial_point |-> f_initial_point]

NoOverrides ==
    /\ f_ansatz = None
    /\ f_initial_state = None
    /\ f_initial_point.tag = "strategy"
    /\ ipHeap[f_initial_point.ref].kind = "VSCF"

\* get_solver(problem, qubit_converter), run by one caller from entry to return
GetSolver(problem, qubit_converter) ==
    /\ nCalls < MaxCalls
    /\ nCalls' = nCalls + 1
    /\ directSet' = FALSE
    /\ UNCHANGED <<f_vqe, concVars, checkVars>>
    /\ LET num_modes == PyLen(problem) IN
       IF num_modes.raised
       THEN /\ last' = [NoCall EXCEPT !.problem = problem,
                                      !.qubit_converter = qubit_converter,
                                      !.result = "TypeError",
                                      !.custom = f_ansatz,
                                      !.plain = NoOverrides,
                                      !.direct = directSet]
            /\ UNCHANGED <<f_initial_state, f_initial_point, f_ansatz, heapVars, handles>>
       ELSE LET num_modals == NormalizeNumModals(problem, num_modes.value)
                initial_state == SelectInitialState(num_modals)
                ansatz == SelectAnsatz(ansatzHeap)
                heap1 == WithAnsatz(ansatzHeap, ansatz)
                heap2 == [heap1 EXCEPT ![ansatz] =
                             Configure(@, qubit_converter, num_modals, initial_state)]
                ip == ResolveInitialPoint(ansatz, heap2)
                solver == SolverToConfigure
                after == FactoryAfterGetSolver(ansatz)
            IN  /\ ipHeap' = ip.strategies
                /\ solverHeap' = HeapPut(solverHeap, solver,
                                     [initial_point |-> ip.point,
                                      ansatz |-> InstalledAnsatz(solver, ansatz)])
                /\ ansatzHeap' = Collect(heap2, solverHeap', ipHeap', {})
                /\ f_ansatz' = after.ansatz
                /\ f_initial_state' = after.initial_state
                /\ f_initial_point' = after.initial_point
                /\ handles' = handles \cup {solver}
                /\ last' = [problem |-> problem,
                            qubit_converter |-> qubit_converter,
                            result |-> "returned",
                            handle |-> solver,
                            custom |-> f_ansatz,
                            plain |-> NoOverrides,
                            direct |-> directSet,
                            repeat |-> /\ last.result = "returned"
                                       /\ last.plain /\ NoOverrides
                                       /\ last.problem = problem
                                       /\ last.qubit_converter = qubit_converter,
                            before |-> heap1[ansatz],
                            content |-> heap2[ansatz],
                            point |-> ip.point]

SettableAnsatzes == CtorAnsatzes
SettableInitialPoints ==
    {IpNone, IpArray(UserArray)} \cup {IpStrategy(r) : r \in 1..Len(ipHeap)}

Next ==
    \/ \E a \in SettableAnsatzes : SetAnsatz(a)
    \/ \E s \in CtorInitialStates : SetInitialState(s)
    \/ \E p \in SettableInitialPoints : SetInitialPoint(p)
    \/ \E r \in 1..Len(UserAnsatzes) : DirectSetSolverAnsatz(r)
    \/ \E problem \in Problems, qc \in Converters : GetSolver(problem, qc)

Spec == Init /\ [][Next]_vars

(***************************************************************************)
(* Properties of the factory under Spec                                    *)
(***************************************************************************)
CallStep == nCalls' = nCalls + 1
CallReturned == CallStep /\ last'.result = "returned"
SolverAnsatz(solvers) == solvers[f_vqe].ansatz
PerModeLayout(problem) ==
    IF problem.is_int THEN [i \in 1..problem.num_modes |-> problem.int] ELSE problem.seq

\* C1: one eigensolver exists per factory, the one made by the constructor;
\* every get_solver call has returned it and it is minimum_eigensolver.
C1_SingleSolver ==
    /\ Len(solverHeap) = 1
    /\ minimum_eigensolver = 1
    /\ handles \subseteq {minimum_eigensolver}
    /\ last.result = "returned" => last.handle = minimum_eigensolver

C1_Witness ==
    /\ nCalls >= 2
    /\ last.result = "returned"
    /\ handles = {minimum_eigensolver}

\* C2: with a custom ansatz set, get_solver configures that very object and
\* installs it on the solver; no other ansatz object is created.
C2_CustomAnsatzIdentity ==
    [][(CallReturned /\ f_ansatz # None) =>
          /\ SolverAnsatz(solverHeap') = f_ansatz
          /\ Len(ansatzHeap') = Len(ansatzHeap)
          /\ ansatzHeap'[Get(f_ansatz)].qubit_converter = Some(last'.qubit_converter)
          /\ ansatzHeap'[Get(f_ansatz)].num_modals = Some(PerModeLayout(last'.problem))]_vars

C2_Witness ==
    /\ nCalls >= 2
    /\ last.result = "returned"
    /\ f_ansatz # None
    /\ SolverAnsatz(solverHeap) = f_ansatz
    /\ ansatzHeap[Get(f_ansatz)].qubit_converter = Some(last.qubit_converter)

\* C3: after a call returns, the solver's ansatz carries the passed converter,
\* the problem's per-mode layout, and the initial_state override or else a VSCF
\* circuit of that layout, whatever the ansatz carried before.
C3_ConfiguredFromCall ==
    [][CallReturned =>
          LET a == ansatzHeap'[Get(SolverAnsatz(solverHeap'))]
              layout == PerModeLayout(last'.problem)
          IN  /\ a.qubit_converter = Some(last'.qubit_converter)
              /\ a.num_modals = Some(layout)
              /\ a.initial_state =
                    Some(IF f_initial_state # None THEN Get(f_initial_state)
                         ELSE VSCF(layout))]_vars

C3_Witness ==
    /\ last.result = "returned"
    /\ f_ansatz # None
    /\ last.before.qubit_converter \notin {None, last.content.qubit_converter}
    /\ last.before.num_modals \notin {None, last.content.num_modals}
    /\ last.before.initial_state \notin {None, last.content.initial_state}
    /\ ansatzHeap[Get(SolverAnsatz(solverHeap))] = last.content

\* C4: a scalar num_modals_per_mode of 4 with 3 modes is normalised to
\* [4, 4, 4] and the call completes; a sequence is used unchanged.
C4_ScalarNormalized ==
    [][CallStep =>
          /\ last'.result = "returned"
          /\ ansatzHeap'[Get(SolverAnsatz(solverHeap'))].num_modals =
                Some(IF last'.problem = ScalarProblem THEN <<4, 4, 4>>
                     ELSE last'.problem.seq)]_vars

\* C5: whatever minimum_eigensolver.ansatz held before, after get_solver it is
\* the factory's custom ansatz if one is set, else a UVCCSD made by that call.
C5_DirectAnsatzOverwritten ==
    [][CallReturned =>
          IF f_ansatz # None
          THEN SolverAnsatz(solverHeap') = f_ansatz
          ELSE /\ SolverAnsatz(solverHeap') = Some(Len(ansatzHeap) + 1)
               /\ ansatzHeap'[Len(ansatzHeap) + 1].kind = "UVCCSD"]_vars

C5_Witness ==
    /\ last.result = "returned"
    /\ last.direct
    /\ ~directSet
    /\ f_ansatz = None
    /\ ansatzHeap[Get(SolverAnsatz(solverHeap))].kind = "UVCCSD"

\* C6: with no overrides, a second get_solver with the same problem and
\* converter leaves the solver with an ansatz and initial point equal in
\* content to those left by the first.
C6_Idempotent ==
    [][(/\ CallReturned
        /\ last.result = "returned"
        /\ last.plain /\ NoOverrides
        /\ last'.problem = last.problem
        /\ last'.qubit_converter = last.qubit_converter) =>
          /\ ansatzHeap'[Get(SolverAnsatz(solverHeap'))] = last.content
          /\ solverHeap'[f_vqe].initial_point = last.point]_vars

C6_Witness ==
    /\ last.result = "returned"
    /\ last.repeat
    /\ ansatzHeap[Get(SolverAnsatz(solverHeap))].kind = "UVCCSD"
    /\ solverHeap[f_vqe].initial_point # None

\* C7: a strategy initial point is bound to the installed ansatz and then
\* evaluated; any other stored value, None included, is written as it is.
C7_InitialPointResolved ==
    [][CallReturned =>
          IF f_initial_point.tag = "strategy"
          THEN /\ ipHeap'[f_initial_point.ref].ansatz = SolverAnsatz(solverHeap')
               /\ solverHeap'[f_vqe].initial_point =
                     Some(ToNumpyArray(ipHeap'[f_initial_point.ref], ansatzHeap'))
          ELSE /\ ipHeap' = ipHeap
               /\ solverHeap'[f_vqe].initial_point =
                     IF f_initial_point.tag = "None" THEN None
                     ELSE Some(f_initial_point.arr)]_vars

C7_Witness ==
    /\ last.result = "returned"
    /\ f_initial_point = IpNone
    /\ solverHeap[f_vqe].initial_point = None
    /\ Len(ipHeap) = 2
    /\ ipHeap[2].ansatz # None

\* C10: get_solver leaves factory.ansatz, initial_state and initial_point as
\* they were, and without a custom ansatz installs an object that did not
\* exist before the call.
C10_FactoryFieldsKept ==
    [][CallStep =>
          /\ f_ansatz' = f_ansatz
          /\ f_initial_state' = f_initial_state
          /\ f_initial_point' = f_initial_point
          /\ (last'.result = "returned" /\ f_ansatz = None) =>
                /\ Get(SolverAnsatz(solverHeap')) \notin DOMAIN ansatzHeap
                /\ SolverAnsatz(solverHeap') # SolverAnsatz(solverHeap)]_vars

C10_Witness ==
    /\ nCalls >= 2
    /\ last.result = "returned"
    /\ f_ansatz = None
    /\ f_initial_state = None
    /\ Get(SolverAnsatz(solverHeap)) = Len(ansatzHeap)
    /\ Len(ansatzHeap) >= Len(UserAnsatzes) + 2

(***************************************************************************)
(* Two callers inside get_solver on one factory: every read or write of a  *)
(* shared field is a step of its own; the code takes no lock.              *)
(***************************************************************************)
Other(c) == CHOOSE d \in Callers : d # c

\* the ansatz objects that running calls hold in their local variable
Held(pcs, locs) ==
    {locs[c].ansatz : c \in {d \in Callers :
        pcs[d] \in {"l167", "l168", "l169", "l171", "l172", "l173", "l177", "l178", "l179"}}}

SolverAt(s) ==
    IF s \in DOMAIN solverHeap THEN solverHeap[s] ELSE [ansatz |-> None, initial_point |-> None]

ConcFrame == UNCHANGED <<factoryVars, nCalls, last, directSet, checkVars>>

\* lines 153-158
Enter(c, problem, qubit_converter) ==
    /\ pc[c] = "idle"
    /\ LET num_modes == PyLen(problem)
           entered == [loc[c] EXCEPT !.problem = problem,
                                     !.qubit_converter = qubit_converter,
                                     !.afterOther = pc[Other(c)] \in {"done", "raised"}]
       IN  IF num_modes.raised
           THEN /\ pc' = [pc EXCEPT ![c] = "raised"]
                /\ loc' = [loc EXCEPT ![c] = [entered EXCEPT !.result = "TypeError"]]
           ELSE /\ pc' = [pc EXCEPT ![c] = "l160"]
                /\ loc' = [loc EXCEPT ![c] =
                      [entered EXCEPT !.num_modals =
                                         NormalizeNumModals(problem, num_modes.value)]]
    /\ UNCHANGED <<heapVars, handles>>
    /\ ConcFrame

\* lines 160-162
L160(c) ==
    /\ pc[c] = "l160"
    /\ loc' = [loc EXCEPT ![c].initial_state = SelectInitialState(loc[c].num_modals)]
    /\ pc' = [pc EXCEPT ![c] = "l164"]
    /\ UNCHANGED <<heapVars, handles>>
    /\ ConcFrame

\* lines 164-166
L164(c) ==
    /\ pc[c] = "l164"
    /\ LET ansatz == SelectAnsatz(ansatzHeap)
       IN  /\ loc' = [loc EXCEPT ![c].ansatz = ansatz]
           /\ ansatzHeap' = WithAnsatz(ansatzHeap, ansatz)
    /\ pc' = [pc EXCEPT ![c] = "l167"]
    /\ UNCHANGED <<ipHeap, solverHeap, handles>>
    /\ ConcFrame

\* line 167
L167(c) ==
    /\ pc[c] = "l167"
    /\ ansatzHeap' = [ansatzHeap EXCEPT
          ![loc[c].ansatz].qubit_converter = Some(loc[c].qubit_converter)]
    /\ pc' = [pc EXCEPT ![c] = "l168"]
    /\ UNCHANGED <<ipHeap, solverHeap, handles, loc>>
    /\ ConcFrame

\* line 168
L168(c) ==
    /\ pc[c] = "l168"
    /\ ansatzHeap' = [ansatzHeap EXCEPT ![loc[c].ansatz].num_modals = Some(loc[c].num_modals)]
    /\ pc' = [pc EXCEPT ![c] = "l169"]
    /\ UNCHANGED <<ipHeap, solverHeap, handles, loc>>
    /\ ConcFrame

\* line 169
L169(c) ==
    /\ pc[c] = "l169"
    /\ ansatzHeap' = [ansatzHeap EXCEPT
          ![loc[c].ansatz].initial_state = Some(loc[c].initial_state)]
    /\ pc' = [pc EXCEPT ![c] = "l171"]
    /\ UNCHANGED <<ipHeap, solverHeap, handles, loc>>
    /\ ConcFrame

\* lines 171, 174-175
L171(c) ==
    /\ pc[c] = "l171"
    /\ IF f_initial_point.tag = "strategy"
       THEN /\ pc' = [pc EXCEPT ![c] = "l172"]
            /\ loc' = loc
       ELSE /\ pc' = [pc EXCEPT ![c] = "l177"]
            /\ loc' = [loc EXCEPT ![c].initial_point =
                          IF f_initial_point.tag = "None" THEN None
                          ELSE Some(f_initial_point.arr)]
    /\ UNCHANGED <<heapVars, handles>>
    /\ ConcFrame

\* line 172
L172(c) ==
    /\ pc[c] = "l172"
    /\ ipHeap' = BindStrategy(ipHeap, f_initial_point.ref, loc[c].ansatz)
    /\ pc' = [pc EXCEPT ![c] = "l173"]
    /\ ansatzHeap' = Collect(ansatzHeap, solverHeap, ipHeap', Held(pc', loc))
    /\ UNCHANGED <<solverHeap, handles, loc>>
    /\ ConcFrame

\* line 173: evaluated on whichever ansatz the strategy is bound to by now
L173(c) ==
    /\ pc[c] = "l173"
    /\ loc' = [loc EXCEPT ![c].initial_point =
                  Some(ToNumpyArray(ipHeap[f_initial_point.ref], ansatzHeap))]
    /\ pc' = [pc EXCEPT ![c] = "l177"]
    /\ UNCHANGED <<heapVars, handles>>
    /\ ConcFrame

\* line 177
L177(c) ==
    /\ pc[c] = "l177"
    /\ LET solver == SolverToConfigure
       IN  solverHeap' = HeapPut(solverHeap, solver,
                            [SolverAt(solver) EXCEPT !.initial_point = loc[c].initial_point])
    /\ pc' = [pc EXCEPT ![c] = "l178"]
    /\ UNCHANGED <<ansatzHeap, ipHeap, handles, loc>>
    /\ ConcFrame

\* line 178
L178(c) ==
    /\ pc[c] = "l178"
    /\ LET solver == SolverToConfigure
       IN  solverHeap' = HeapPut(solverHeap, solver,
                            [SolverAt(solver) EXCEPT
                                !.ansatz = InstalledAnsatz(solver, loc[c].ansatz)])
    /\ pc' = [pc EXCEPT ![c] = "l179"]
    /\ ansatzHeap' = Collect(ansatzHeap, solverHeap', ipHeap, Held(pc', loc))
    /\ UNCHANGED <<ipHeap, handles, loc>>
    /\ ConcFrame

\* line 179: the call returns and its local variables are gone
L179(c) ==
    /\ pc[c] = "l179"
    /\ loc' = [loc EXCEPT ![c].handle = SolverToConfigure,
                          ![c].result = "returned",
                          ![c].ansatz = 0]
    /\ handles' = handles \cup {SolverToConfigure}
    /\ pc' = [pc EXCEPT ![c] = "done"]
    /\ ansatzHeap' = Collect(ansatzHeap, solverHeap, ipHeap, Held(pc', loc'))
    /\ UNCHANGED <<ipHeap, solverHeap>>
    /\ ConcFrame

NextConc ==
    \E c \in Callers :
        \/ \E problem \in Problems, qc \in Converters : Enter(c, problem, qc)
        \/ L160(c)
        \/ L164(c)
        \/ L167(c)
        \/ L168(c)
        \/ L169(c)
        \/ L171(c)
        \/ L172(c)
        \/ L173(c)
        \/ L177(c)
        \/ L178(c)
        \/ L179(c)

SpecConc == Init /\ [][NextConc]_vars

\* C9: get_solver takes no lock: every caller is handed the one shared solver,
\* so when a second call runs after the first has returned, what the first
\* caller's handle shows is the second call's configuration.
C9_SharedHandle ==
    \A c \in Callers :
        /\ pc[c] = "done" => loc[c].handle = f_vqe
        /\ (pc[c] = "done" /\ pc[Other(c)] = "done" /\ loc[Other(c)].afterOther) =>
              LET d == Other(c)
                  solver == solverHeap[loc[c].handle]
                  a == ansatzHeap[Get(solver.ansatz)]
              IN  /\ a.qubit_converter = Some(loc[d].qubit_converter)
                  /\ a.num_modals = Some(loc[d].num_modals)
                  /\ a.initial_state = Some(loc[d].initial_state)
                  /\ solver.initial_point = loc[d].initial_point

\* interleaved calls on a custom ansatz: one caller has its handle, and the
\* shared ansatz holds that caller's converter with the other's modal layout
C9_Witness ==
    \E c \in Callers :
        LET d == Other(c) IN
        /\ pc[c] = "done" /\ pc[d] \notin {"idle", "raised"}
        /\ ~loc[c].afterOther /\ ~loc[d].afterOther
        /\ f_ansatz # None
        /\ solverHeap[loc[c].handle].ansatz = f_ansatz
        /\ loc[c].qubit_converter # loc[d].qubit_converter
        /\ loc[c].num_modals # loc[d].num_modals
        /\ ansatzHeap[Get(f_ansatz)].qubit_converter = Some(loc[c].qubit_converter)
        /\ ansatzHeap[Get(f_ansatz)].num_modals = Some(loc[d].num_modals)

(***************************************************************************)
(* The component comparison of test_second_q_ops_without_transformers and  *)
(* test_second_q_ops_with_active_space.  A term is (label, coefficient);   *)
(* coefficients are integers in units of 1e-9.                             *)
(***************************************************************************)
AtolUnits == 10          \* np.isclose default atol = 1e-8
RtolInverse == 100000    \* np.isclose default rtol = 1e-5

Labels == {"+_0 -_0", "+_0 -_1"}
Coeffs == {-1000, 1000, 1005, 2000}
Terms == [label : Labels, coeff : Coeffs]
TermLists == UNION {[1..n -> Terms] : n \in 0..MaxTerms}

Abs(x) == IF x < 0 THEN -x ELSE x
Min(a, b) == IF a <= b THEN a ELSE b

\* np.isclose(a, b): |a - b| <= atol + rtol * |b|
IsClose(a, b) == RtolInverse * Abs(a - b) <= RtolInverse * AtolUnits + Abs(b)

\* s[0] == t[0] and np.isclose(np.abs(s[1]), np.abs(t[1]))
TermMatches(s, t) == s.label = t.label /\ IsClose(Abs(s.coeff), Abs(t.coeff))

\* zip(expected, computed): pairs up to the shorter of the two lists
Zip(xs, ys) == [i \in 1..Min(Len(xs), Len(ys)) |-> <<xs[i], ys[i]>>]

\* all(... for s, t in zip(expected_fermionic_op, electr_sec_quant_op.to_list()))
ComponentsMatch(exp, comp) ==
    \A i \in DOMAIN Zip(exp, comp) : TermMatches(Zip(exp, comp)[i][1], Zip(exp, comp)[i][2])

InitCheck ==
    /\ Constructed(IpNone, None, None)
    /\ InitHist
    /\ InitConcIdle
    /\ expected \in TermLists
    /\ computed \in TermLists
    /\ checkResult = "none"

\* the assert of the subtest: passes, or fails with AssertionError
RunCheck ==
    /\ checkResult = "none"
    /\ checkResult' = IF ComponentsMatch(expected, computed) THEN "pass" ELSE "fail"
    /\ UNCHANGED <<factoryVars, heapVars, histVars, concVars, expected, computed>>

SpecCheck == InitCheck /\ [][RunCheck]_vars

\* C8: the comparison passes only when the computed term list equals the
\* fixture term by term: same length, same label and a coefficient of
\* matching magnitude at every position.
C8_PassOnlyOnFullMatch ==
    checkResult = "pass" =>
        /\ Len(computed) = Len(expected)
        /\ \A i \in 1..Len(expected) : TermMatches(expected[i], computed[i])

====
